---- MODULE Spec2Model ----
(***************************************************************************)
(* Real-time messaging core of FastAPI_chat: the ConnectionManager         *)
(* registry, the per-connection receive loop of websocket_endpoint, the    *)
(* persistence calls it makes (create_message, mark_message_as_read) and   *)
(* the /ws route that authenticates a connection.                          *)
(*                                                                         *)
(* websocket_route's call of websocket_endpoint passes user_email, which   *)
(* the function does not declare, so the call raises TypeError before the  *)
(* body runs.  The session handler is therefore also modelled as invoked   *)
(* directly with its declared signature (EndpointCall), which is how its   *)
(* body can run at all.                                                    *)
(*                                                                         *)
(* Every await of the handler that another task can observe is a separate  *)
(* action: the wait for a frame, the commit of create_message (its select  *)
(* has run, its INSERT has not), and each send of a broadcast.             *)
(*                                                                         *)
(* What a connection receives is recorded where it is sent: the locals of  *)
(* a handler keep the connections its broadcast has reached, in order      *)
(* (sent), and when a handler is done with a frame the history variable    *)
(* last records that frame, the error text sent to the handler's own       *)
(* socket (reply) and the locals.  Timestamps are left out.                *)
(***************************************************************************)
EXTENDS Integers, Sequences, FiniteSets, TLC

\* ------------------------------------------------------------------ bounds
\* the sockets the server sees
Conn == {"a", "b"}

\* connections are interchangeable: they arrive in the order a, b
Earlier(c) == IF c = "a" THEN {} ELSE {"a"}

MaxFrames == 3

\* number of clients that go away
MaxPeerClose == 1

\* ------------------------------------------------- rows the database holds
\* chats.id of the rows of table chats
ChatRows == {1, 2}

\* groups.id -> groups.chat_id of the rows of table groups
GroupRows == (1 :> 2)

\* users.id of the rows of table users
UserRows == {1, 2}

\* ----------------------------------------------------------------- inputs
\* (chat_or_group_id, is_group) a session handler is started with
Targets == {<<1, FALSE>>, <<1, TRUE>>, <<3, FALSE>>}

\* query parameters of a connection to /ws.  token: "" is absent, "garbage"
\* fails jwt.decode, "nosub" decodes to a payload without sub, "good" decodes
\* to a payload with a subject.  chat_id, group_id: "" is absent.
Query(t, c, g) == [token |-> t, chat_id |-> c, group_id |-> g]

Queries ==
    { Query("", "1", ""), Query("garbage", "1", ""), Query("nosub", "", "1"),
      Query("good", "", ""), Query("good", "1", ""), Query("good", "", "1") }

\* Inbound frames.  json is "object", "nonobject" (valid JSON that is not an
\* object) or "invalid".  A missing key and a falsy value read the same in
\* the handler (dict.get, then `not x`): 0 and "" stand for both.
Frame(j, a, s, t, m) ==
    [json |-> j, action |-> a, sender_id |-> s, text |-> t, message_id |-> m]

Frames ==
    { Frame("invalid", "", 0, "", 0),
      Frame("nonobject", "", 0, "", 0),
      Frame("object", "send_message", 1, "hi", 0),
      Frame("object", "send_message", 1, "", 0),
      Frame("object", "send_message", 2, "hi", 0),
      Frame("object", "send_message", 3, "hi", 0),
      Frame("object", "mark_as_read", 0, "", 1),
      Frame("object", "mark_as_read", 1, "hi", 0),
      Frame("object", "mark_as_read", 1, "hi", 1),
      Frame("object", "mark_as_read", 1, "hi", 2),
      Frame("object", "frobnicate", 0, "", 0),
      Frame("object", "frobnicate", 1, "hi", 0) }

VARIABLES
    active_connections, \* ConnectionManager.active_connections: key -> list
    state,              \* per connection: "new", "open", "closed", "rejected", "crashed"
    bound,              \* per connection: <<chat_or_group_id, is_group>> of its handler
    pc,                 \* per connection: where its handler is suspended
    peer,               \* per connection: TRUE while the client end is connected
    close,              \* per connection: [code, reason] of websocket.close
    query,              \* per connection: query_params seen by websocket_route
    messages,           \* table messages, in insertion order
    cur,                \* per connection: locals of the frame being processed
    last,               \* history: the frame whose processing ended last
    nframes             \* number of inbound frames read so far

vars == <<active_connections, state, bound, pc, peer, close, query,
          messages, cur, last, nframes>>

\* ---------------------------------------------------------------- helpers
Range(s) == {s[i] : i \in 1..Len(s)}

\* list.remove: drops the first occurrence
RECURSIVE ListRemove(_, _)
ListRemove(s, x) ==
    IF s = <<>> THEN <<>>
    ELSE IF Head(s) = x THEN Tail(s)
    ELSE <<Head(s)>> \o ListRemove(Tail(s), x)

NoTarget == <<0, FALSE>>

NoMessage == [id |-> 0, chat_id |-> 0, sender_id |-> 0, text |-> "", is_read |-> FALSE]

NoFrame == [json |-> "none", action |-> "", sender_id |-> 0, text |-> "", message_id |-> 0]

\* frame: the decoded inbound frame; message: the row created or marked;
\* action: the action of the event being broadcast; idx: position of the list
\* iterator of broadcast; members: the list when broadcast was entered;
\* sent: the connections send_text has returned for; db: the session of the
\* frame, "none" before `db = AsyncSessionLocal()`, then "open", and "closed"
\* after `await db.close()`
NoLocals ==
    [frame |-> NoFrame, message |-> NoMessage, action |-> "", idx |-> 0,
     members |-> <<>>, sent |-> <<>>, db |-> "none"]

\* conn: the connection whose handler ended a frame; conv: the
\* (chat_or_group_id, is_group) it was started with; locals: its locals then;
\* outcome: "error" (error frame sent, nothing broadcast), "dropped" (nothing
\* sent), "delivered" (broadcast returned), "aborted" (broadcast raised),
\* "none"; cause: the branch that ended it; reply: error text sent to conn;
\* alive: FALSE if the handler ended with the frame
NoLast ==
    [conn |-> "", conv |-> NoTarget, locals |-> NoLocals, outcome |-> "none",
     cause |-> "", reply |-> "", alive |-> TRUE]

\* the query of a connection that has not come to /ws
NoQuery == [token |-> "(no request)", chat_id |-> "", group_id |-> ""]

NoClose == [code |-> 0, reason |-> ""]

Init ==
    /\ active_connections = <<>>
    /\ state = [c \in Conn |-> "new"]
    /\ bound = [c \in Conn |-> NoTarget]
    /\ pc = [c \in Conn |-> "idle"]
    /\ peer = [c \in Conn |-> TRUE]
    /\ close = [c \in Conn |-> NoClose]
    /\ query = [c \in Conn |-> NoQuery]
    /\ messages = <<>>
    /\ cur = [c \in Conn |-> NoLocals]
    /\ last = NoLast
    /\ nframes = 0

\* ------------------------------------------------------ ConnectionManager
\* connect that creates the list with the websocket in it and appends as well
connect_InitWithSocket(reg, websocket, chat_id) ==
    IF chat_id \in DOMAIN reg
    THEN [reg EXCEPT ![chat_id] = Append(@, websocket)]
    ELSE reg @@ (chat_id :> <<websocket, websocket>>)

connect(reg, websocket, chat_id) ==
    IF chat_id \in DOMAIN reg
    THEN [reg EXCEPT ![chat_id] = Append(@, websocket)]
    ELSE reg @@ (chat_id :> <<websocket>>)

\* disconnect that tests the list for emptiness before it removes from it
disconnect_TestsBeforeRemove(reg, websocket, chat_id) ==
    IF chat_id \in DOMAIN reg
    THEN IF reg[chat_id] = <<>>
         THEN [k \in DOMAIN reg \ {chat_id} |-> reg[k]]
         ELSE [reg EXCEPT ![chat_id] = ListRemove(@, websocket)]
    ELSE reg

\* disconnect without `del self.active_connections[chat_id]`
disconnect_KeepsEmptyList(reg, websocket, chat_id) ==
    IF chat_id \in DOMAIN reg
    THEN [reg EXCEPT ![chat_id] = ListRemove(@, websocket)]
    ELSE reg

disconnect(reg, websocket, chat_id) ==
    IF chat_id \in DOMAIN reg
    THEN LET l == ListRemove(reg[chat_id], websocket)
         IN  IF l = <<>>
             THEN [k \in DOMAIN reg \ {chat_id} |-> reg[k]]
             ELSE [reg EXCEPT ![chat_id] = l]
    ELSE reg

\* websocket_endpoint called with its declared parameters on a fresh socket
EndpointCall(c, t) ==
    /\ state[c] = "new"
    /\ \A d \in Earlier(c) : state[d] # "new"
    /\ active_connections' = connect(active_connections, c, t[1])
    /\ state' = [state EXCEPT ![c] = "open"]
    /\ bound' = [bound EXCEPT ![c] = t]
    /\ pc' = [pc EXCEPT ![c] = "receive"]
    /\ UNCHANGED <<peer, close, query, messages, cur, last, nframes>>

\* ------------------------------------------------------------- /ws route
WS_1008_POLICY_VIOLATION == 1008

\* jwt.decode(token, SECRET_KEY, algorithms=[ALGORITHM]).get("sub"):
\* "JWTError" if decoding raises, "" if the payload has no sub
jwt_sub(token) ==
    IF token = "good" THEN "user@example.org"
    ELSE IF token = "nosub" THEN ""
    ELSE "JWTError"

\* get_current_user_websocket without `if email is None: raise`
get_current_user_websocket_NoSubCheck(token) ==
    IF jwt_sub(token) = "JWTError" THEN "HTTPException" ELSE jwt_sub(token)

\* get_current_user_websocket: the email, or "HTTPException" when it raises
\* credentials_exception
get_current_user_websocket(token) ==
    IF jwt_sub(token) = "JWTError" \/ jwt_sub(token) = ""
    THEN "HTTPException"
    ELSE jwt_sub(token)

\* int(chat_id) / int(group_id)
int(str) == IF str = "1" THEN 1 ELSE 3

\* parameters websocket_endpoint declares, and the arguments websocket_route
\* passes in its two calls
EndpointParameters == {"websocket", "chat_or_group_id", "is_group"}

RouteArguments == {"websocket", "chat_or_group_id", "is_group", "user_email"}

\* a Python call binds only if every argument names a declared parameter;
\* otherwise it raises TypeError before the body runs
CallBinds(arguments, parameters) == arguments \subseteq parameters

\* websocket.close(code, reason) followed by return
RouteClose(c, q, reason) ==
    /\ close' = [close EXCEPT ![c] = [code |-> WS_1008_POLICY_VIOLATION, reason |-> reason]]
    /\ state' = [state EXCEPT ![c] = "rejected"]
    /\ query' = [query EXCEPT ![c] = q]
    /\ UNCHANGED <<active_connections, bound, pc, peer, messages, cur, last, nframes>>

\* websocket_route, from the arrival of a connection to its return
websocket_route(c, q) ==
    /\ state[c] = "new"
    /\ \A d \in Earlier(c) : state[d] # "new"
    /\ IF q.token = ""
       THEN RouteClose(c, q, "token required")
       ELSE IF get_current_user_websocket(q.token) = "HTTPException"
       THEN RouteClose(c, q, "bad token")
       ELSE IF q.chat_id = "" /\ q.group_id = ""
       THEN RouteClose(c, q, "chat_id or group_id required")
       ELSE \* websocket.accept(), then the call of websocket_endpoint
            IF CallBinds(RouteArguments, EndpointParameters)
            THEN /\ active_connections' =
                        connect(active_connections, c,
                                IF q.chat_id # "" THEN int(q.chat_id) ELSE int(q.group_id))
                 /\ state' = [state EXCEPT ![c] = "open"]
                 /\ bound' = [bound EXCEPT ![c] =
                        IF q.chat_id # "" THEN <<int(q.chat_id), FALSE>>
                        ELSE <<int(q.group_id), TRUE>>]
                 /\ pc' = [pc EXCEPT ![c] = "receive"]
                 /\ query' = [query EXCEPT ![c] = q]
                 /\ UNCHANGED <<peer, close, messages, cur, last, nframes>>
            ELSE /\ state' = [state EXCEPT ![c] = "crashed"]
                 /\ query' = [query EXCEPT ![c] = q]
                 /\ UNCHANGED <<active_connections, bound, pc, peer, close,
                                messages, cur, last, nframes>>

\* ------------------------------------------------------------ persistence
\* db.get(models.Group, id) / db.get(models.Chat, id)
ChatFound(id, is_group) ==
    IF is_group THEN id \in DOMAIN GroupRows ELSE id \in ChatRows

\* chat.id whether is_group or not: the group's own id
TargetChatId_GroupId(id, is_group) ==
    id

\* chat.id if not is_group else chat.chat_id
TargetChatId(id, is_group) ==
    IF is_group THEN GroupRows[id] ELSE id

\* sha256 of f"{chat_id}_{sender_id}_{text}"; the digest is taken to be
\* collision free, so it is represented by the string it is computed from
message_hash(chat_id, sender_id, text) ==
    ToString(chat_id) \o "_" \o ToString(sender_id) \o "_" \o text

\* select(Message).filter(Message.message_hash == h) ... .first()
existing_message(msgs, h) ==
    \E i \in 1..Len(msgs) : message_hash(msgs[i].chat_id, msgs[i].sender_id, msgs[i].text) = h

\* message_hash declared without unique=True
UniqueViolation_NotDeclared(msgs, h) == FALSE

\* unique=True on messages.message_hash: the INSERT of a second row with
\* the same hash fails
UniqueViolation(msgs, h) ==
    \E i \in 1..Len(msgs) : message_hash(msgs[i].chat_id, msgs[i].sender_id, msgs[i].text) = h

\* ForeignKey("users.id") on messages.sender_id and ForeignKey("chats.id")
\* on messages.chat_id
ForeignKeyViolation(chat_id, sender_id) ==
    sender_id \notin UserRows \/ chat_id \notin ChatRows

\* a select that also filters on is_read == False
MessageIndex_UnreadOnly(msgs, message_id) ==
    IF \E i \in 1..Len(msgs) : msgs[i].id = message_id /\ ~msgs[i].is_read
    THEN CHOOSE i \in 1..Len(msgs) : msgs[i].id = message_id /\ ~msgs[i].is_read
    ELSE 0

\* select(Message).filter(Message.id == message_id) ... .first(): 0 if none
MessageIndex(msgs, message_id) ==
    IF \E i \in 1..Len(msgs) : msgs[i].id = message_id
    THEN CHOOSE i \in 1..Len(msgs) : msgs[i].id = message_id
    ELSE 0

\* error texts of websocket_endpoint
ErrFormat == "bad message format"

ErrChatNotFound == "chat or group not found"

ErrNoMessageId == "message id missing"

ErrMessageNotFound == "message not found"

ErrInternal == "internal server error"

ErrJson == "bad JSON"

\* -------------------------------------------------------- session handler
Ended(c, locals, outcome, cause, reply, alive) ==
    [conn |-> c, conv |-> bound[c], locals |-> locals, outcome |-> outcome,
     cause |-> cause, reply |-> reply, alive |-> alive]

\* the session of a frame that ends with an error frame: json.loads, the
\* .get calls and the field check come before `db = AsyncSessionLocal()`;
\* every later error branch leaves by continue or by an except clause, none
\* of which closes db
SessionAt(cause) ==
    IF cause \in {"invalid json", "not an object", "field check"} THEN "none" ELSE "open"

\* an error frame is sent to the handler's own socket and the loop goes on
ReplyError(c, f, err, cause) ==
    /\ last' = Ended(c, [NoLocals EXCEPT !.frame = f, !.db = SessionAt(cause)],
                      "error", cause, err, TRUE)
    /\ UNCHANGED <<active_connections, state, bound, pc, peer, close, query, messages, cur>>

\* no branch of the if/elif on action is taken: nothing is sent
NoBranch(c, f) ==
    /\ last' = Ended(c, [NoLocals EXCEPT !.frame = f, !.db = "open"],
                      "dropped", "no branch", "", TRUE)
    /\ UNCHANGED <<active_connections, state, bound, pc, peer, close, query, messages, cur>>

\* create_message has run its select and found nothing; its INSERT is next
AwaitCommit(c, f) ==
    /\ cur' = [cur EXCEPT ![c] =
                 [NoLocals EXCEPT !.frame = f, !.db = "open",
                    !.message = [id |-> 0,
                                 chat_id |-> TargetChatId(bound[c][1], bound[c][2]),
                                 sender_id |-> f.sender_id, text |-> f.text, is_read |-> FALSE]]]
    /\ pc' = [pc EXCEPT ![c] = "commit"]
    /\ UNCHANGED <<active_connections, state, bound, peer, close, query, messages, last>>

\* a variant of mark_message_as_read that flips the flag
mark_message_as_read_Toggles(msgs, i) ==
    [msgs EXCEPT ![i].is_read = ~@]

\* crud.mark_message_as_read on the row it found: db_message.is_read = True
mark_message_as_read(msgs, i) ==
    [msgs EXCEPT ![i].is_read = TRUE]

\* mark_message_as_read found the row: is_read is set and committed, and
\* manager.broadcast is entered (the session stays open)
MarkAndBroadcast(c, f, i) ==
    /\ messages' = mark_message_as_read(messages, i)
    /\ cur' = [cur EXCEPT ![c] =
                 [NoLocals EXCEPT !.frame = f, !.action = "message_read", !.db = "open",
                    !.message = mark_message_as_read(messages, i)[i],
                    !.members = active_connections[bound[c][1]]]]
    /\ pc' = [pc EXCEPT ![c] = "broadcast"]
    /\ UNCHANGED <<active_connections, state, bound, peer, close, query, last>>

\* a variant of the loop that reads the next frame while the last one is
\* still being processed
AwaitingFrame_Pipelined(c) ==
    state[c] = "open"

\* the handler of c is suspended in `await websocket.receive_text()`: the
\* body of `while True` is over and nothing of the last frame is pending
AwaitingFrame(c) ==
    state[c] = "open" /\ pc[c] = "receive"

\* one pass of the receive loop up to its first await on the database or on
\* another socket: receive_text, json.loads, the field check, the dispatch
ReceiveFrame(c, f) ==
    /\ AwaitingFrame(c)
    /\ peer[c]
    /\ nframes < MaxFrames
    /\ nframes' = nframes + 1
    /\ LET id == bound[c][1]
           is_group == bound[c][2]
       IN  CASE f.json = "invalid" -> ReplyError(c, f, ErrJson, "invalid json")
             [] f.json = "nonobject" -> ReplyError(c, f, ErrInternal, "not an object")
             [] f.json = "object" /\ (f.sender_id = 0 \/ f.text = "") ->
                    ReplyError(c, f, ErrFormat, "field check")
             [] f.json = "object" /\ f.sender_id # 0 /\ f.text # "" /\ f.action = "send_message" ->
                    IF ~ChatFound(id, is_group)
                    THEN ReplyError(c, f, ErrChatNotFound, "chat not found")
                    ELSE IF existing_message(messages,
                                message_hash(TargetChatId(id, is_group), f.sender_id, f.text))
                         THEN ReplyError(c, f, ErrInternal, "duplicate found")
                         ELSE AwaitCommit(c, f)
             [] f.json = "object" /\ f.sender_id # 0 /\ f.text # "" /\ f.action = "mark_as_read" ->
                    IF f.message_id = 0
                    THEN ReplyError(c, f, ErrNoMessageId, "no message id")
                    ELSE IF MessageIndex(messages, f.message_id) = 0
                         THEN ReplyError(c, f, ErrMessageNotFound, "message not found")
                         ELSE MarkAndBroadcast(c, f, MessageIndex(messages, f.message_id))
             [] OTHER -> NoBranch(c, f)

\* receive_text raises because the client is gone: the outer except
\* unregisters the connection and the handler returns
ReceiveDisconnect(c) ==
    /\ state[c] = "open"
    /\ pc[c] = "receive"
    /\ ~peer[c]
    /\ active_connections' = disconnect(active_connections, c, bound[c][1])
    /\ state' = [state EXCEPT ![c] = "closed"]
    /\ pc' = [pc EXCEPT ![c] = "done"]
    /\ bound' = [bound EXCEPT ![c] = NoTarget]
    /\ UNCHANGED <<peer, close, query, messages, cur, last, nframes>>

\* a variant of the loop without the inner try: every exception of a frame
\* reaches the outer except and ends the handler
RaiseInFrame_NoInnerExcept(c, outcome, cause) ==
    /\ cur' = [cur EXCEPT ![c] = NoLocals]
    /\ last' = Ended(c, cur[c], outcome, cause, "", FALSE)
    /\ active_connections' = disconnect(active_connections, c, bound[c][1])
    /\ state' = [state EXCEPT ![c] = "closed"]
    /\ pc' = [pc EXCEPT ![c] = "done"]
    /\ bound' = [bound EXCEPT ![c] = NoTarget]

\* an exception inside the inner try: except Exception sends the internal
\* error to the handler's own socket; if that send raises too, the exception
\* reaches the outer except, which unregisters the connection
RaiseInFrame(c, outcome, cause) ==
    /\ cur' = [cur EXCEPT ![c] = NoLocals]
    /\ IF peer[c]
       THEN /\ last' = Ended(c, cur[c], outcome, cause, ErrInternal, TRUE)
            /\ pc' = [pc EXCEPT ![c] = "receive"]
            /\ UNCHANGED <<active_connections, state, bound>>
       ELSE /\ last' = Ended(c, cur[c], outcome, cause, "", FALSE)
            /\ active_connections' = disconnect(active_connections, c, bound[c][1])
            /\ state' = [state EXCEPT ![c] = "closed"]
            /\ pc' = [pc EXCEPT ![c] = "done"]
            /\ bound' = [bound EXCEPT ![c] = NoTarget]

\* db.commit of create_message, db.close, and the entry into manager.broadcast
Commit(c) ==
    /\ state[c] = "open"
    /\ pc[c] = "commit"
    /\ LET m == cur[c].message
           h == message_hash(m.chat_id, m.sender_id, m.text)
       IN  IF UniqueViolation(messages, h)
           THEN /\ RaiseInFrame(c, "error", "duplicate insert")
                /\ UNCHANGED messages
           ELSE IF ForeignKeyViolation(m.chat_id, m.sender_id)
           THEN /\ RaiseInFrame(c, "error", "foreign key")
                /\ UNCHANGED messages
           ELSE LET row == [m EXCEPT !.id = Len(messages) + 1]
                IN  /\ messages' = Append(messages, row)
                                    /\ cur' = [cur EXCEPT ![c] =
                                 [@ EXCEPT !.message = row, !.action = "new_message",
                                           !.db = "closed",
                                           !.members = active_connections[bound[c][1]]]]
                    /\ pc' = [pc EXCEPT ![c] = "broadcast"]
                    /\ UNCHANGED <<active_connections, state, bound, last>>
    /\ UNCHANGED <<peer, close, query, nframes>>

\* one turn of `for connection in self.active_connections[chat_id]` with its
\* await connection.send_text(message); the list is read as it is now
BroadcastStep(c) ==
    /\ state[c] = "open"
    /\ pc[c] = "broadcast"
    /\ LET chat_id == bound[c][1]
           l == IF chat_id \in DOMAIN active_connections
                THEN active_connections[chat_id] ELSE <<>>
       IN  IF cur[c].idx < Len(l)
           THEN LET connection == l[cur[c].idx + 1]
                IN  IF peer[connection]
                    THEN /\ cur' = [cur EXCEPT ![c].idx = @ + 1,
                                               ![c].sent = Append(@, connection)]
                         /\ UNCHANGED <<active_connections, state, bound, pc, last>>
                    ELSE RaiseInFrame(c, "aborted", "send failed")
           ELSE /\ last' = Ended(c, cur[c], "delivered", "", "", TRUE)
                /\ cur' = [cur EXCEPT ![c] = NoLocals]
                /\ pc' = [pc EXCEPT ![c] = "receive"]
                /\ UNCHANGED <<active_connections, state, bound>>
    /\ UNCHANGED <<peer, close, query, messages, nframes>>

\* the client end of an open connection goes away
PeerClose(c) ==
    /\ state[c] = "open"
    /\ peer[c]
    /\ Cardinality({d \in Conn : ~peer[d]}) < MaxPeerClose
    /\ peer' = [peer EXCEPT ![c] = FALSE]
    /\ UNCHANGED <<active_connections, state, bound, pc, close, query,
                   messages, cur, last, nframes>>

Next ==
    \/ \E c \in Conn, q \in Queries : websocket_route(c, q)
    \/ \E c \in Conn, t \in Targets : EndpointCall(c, t)
    \/ \E c \in Conn, f \in Frames : ReceiveFrame(c, f)
    \/ \E c \in Conn : ReceiveDisconnect(c)
    \/ \E c \in Conn : Commit(c)
    \/ \E c \in Conn : BroadcastStep(c)
    \/ \E c \in Conn : PeerClose(c)

Spec == Init /\ [][Next]_vars

\* ------------------------------------- ConnectionManager called directly
\* The methods of ConnectionManager applied in any order to any connection
\* and key, as a caller other than websocket_endpoint may apply them.

MaxEntries == 3

Keys == {1, 3}

Entries(reg) ==
    LET RECURSIVE Sum(_)
        Sum(K) == IF K = {} THEN 0
                  ELSE LET k == CHOOSE x \in K : TRUE
                       IN  Len(reg[k]) + Sum(K \ {k})
    IN  Sum(DOMAIN reg)

\* `await websocket.accept()` of connect: it returns on a socket that was not
\* accepted yet; what it does on an accepted socket is the ASGI stack's
\* business, not this code's (Starlette raises RuntimeError)
accept(st) ==
    IF st = "new" THEN {""} ELSE {"", "RuntimeError"}

\* list.remove(websocket) of disconnect raises ValueError when the key is
\* there and its list does not hold the websocket
disconnect_raises(reg, websocket, chat_id) ==
    chat_id \in DOMAIN reg /\ websocket \notin Range(reg[chat_id])

\* the call that ended last: method, connection, key, exception, deliveries
Called(method, c, k, exc, sent) ==
    [NoLast EXCEPT !.conn = c, !.conv = <<k, FALSE>>, !.outcome = method,
                   !.cause = exc, !.locals = [NoLocals EXCEPT !.sent = sent]]

ManagerConnect(c, k) ==
    /\ Entries(active_connections) < MaxEntries
    /\ \E exc \in accept(state[c]) :
          /\ last' = Called("connect", c, k, exc, <<>>)
          /\ IF exc = ""
             THEN /\ active_connections' = connect(active_connections, c, k)
                  /\ state' = [state EXCEPT ![c] = "open"]
             ELSE UNCHANGED <<active_connections, state>>
    /\ UNCHANGED <<bound, pc, peer, close, query, messages, cur, nframes>>

ManagerDisconnect(c, k) ==
    /\ IF disconnect_raises(active_connections, c, k)
       THEN /\ last' = Called("disconnect", c, k, "ValueError", <<>>)
            /\ UNCHANGED active_connections
       ELSE /\ last' = Called("disconnect", c, k, "", <<>>)
            /\ active_connections' = disconnect(active_connections, c, k)
    /\ UNCHANGED <<state, bound, pc, peer, close, query, messages, cur, nframes>>

\* broadcast with every client there: send_text returns for each entry
ManagerBroadcast(k) ==
    /\ last' = Called("broadcast", "", k, "",
                       IF k \in DOMAIN active_connections
                       THEN active_connections[k] ELSE <<>>)
    /\ UNCHANGED <<active_connections, state, bound, pc, peer, close, query,
                   messages, cur, nframes>>

NextRegistry ==
    \/ \E c \in Conn, k \in Keys : ManagerConnect(c, k)
    \/ \E c \in Conn, k \in Keys : ManagerDisconnect(c, k)
    \/ \E k \in Keys : ManagerBroadcast(k)

SpecRegistry == Init /\ [][NextRegistry]_vars

\* ================================================================= claims
Count(seq, x) == Cardinality({i \in 1..Len(seq) : seq[i] = x})

Registered(c) ==
    \E k \in DOMAIN active_connections : c \in Range(active_connections[k])

\* rows of messages that hold the triple of row m
RowsLike(m) ==
    {i \in 1..Len(messages) :
        /\ messages[i].chat_id = m.chat_id
        /\ messages[i].sender_id = m.sender_id
        /\ messages[i].text = m.text}

\* the members of the list a broadcast started with that are still
\* registered for the conversation conv with a connected client
LiveMembers(members, conv) ==
    {d \in Range(members) : state[d] = "open" /\ peer[d] /\ bound[d] = conv}

\* C1: when a valid send_message frame with a triple not persisted before has
\* been processed, exactly one row holds the triple and every connection that
\* was registered for the conversation when the broadcast started (here: those
\* still registered, with a connected client) has been sent the new_message
\* event exactly once, with the fields of the row.
C1_SendReachesEveryMember ==
    (last.locals.action = "new_message" /\ last.outcome \in {"delivered", "aborted"}) =>
        /\ Cardinality(RowsLike(last.locals.message)) = 1
        /\ \E i \in 1..Len(messages) : messages[i] = last.locals.message
        /\ \A d \in LiveMembers(last.locals.members, last.conv) :
              Count(last.locals.sent, d) = 1

\* C2: the same (chat_id, sender_id, text) is never persisted twice, and a
\* frame that repeats a persisted triple, also one that lost the race to the
\* INSERT, ends with an error frame to its own connection and nothing
\* broadcast.
C2_DuplicateRejected ==
    /\ \A i, j \in 1..Len(messages) :
          (message_hash(messages[i].chat_id, messages[i].sender_id, messages[i].text)
             = message_hash(messages[j].chat_id, messages[j].sender_id, messages[j].text))
          => i = j
    /\ \A c \in Conn :
          pc[c] = "broadcast" /\ cur[c].action = "new_message"
          => RowsLike(cur[c].message) = {cur[c].message.id}
    /\ last.cause \in {"duplicate found", "duplicate insert"} =>
          /\ last.outcome = "error"
          /\ last.locals.sent = <<>>
          /\ last.locals.members = <<>>
          /\ last.alive => last.reply # ""
          /\ \E i \in 1..Len(messages) :
                /\ messages[i].sender_id = last.locals.frame.sender_id
                /\ messages[i].text = last.locals.frame.text
                /\ messages[i].chat_id = TargetChatId(last.conv[1], last.conv[2])

\* two connections passed the select of create_message with the same triple;
\* the second INSERT failed and its connection got the error frame
C2_Witness ==
    /\ last.cause = "duplicate insert"
    /\ last.alive
    /\ last.reply = ErrInternal
    /\ Len(messages) = 1

\* C3: a mark_as_read frame that carries only action and message_id ends in a
\* message_read broadcast with is_read true if the message exists, and in an
\* error frame without broadcast if it does not.
C3_MarkAsReadWithIdOnly ==
    [][(last' # last /\ last'.locals.frame = Frame("object", "mark_as_read", 0, "", 1)) =>
          IF MessageIndex(messages, 1) # 0
          THEN /\ last'.outcome \in {"delivered", "aborted"}
               /\ last'.locals.action = "message_read"
               /\ last'.locals.message.id = 1
               /\ last'.locals.message.is_read
               /\ messages'[MessageIndex(messages, 1)].is_read
          ELSE /\ last'.outcome = "error"
               /\ last'.locals.sent = <<>>]_vars

\* C4: an event broadcast for a conversation (id, kind) is sent only to
\* connections bound to that conversation, also when a chat and a group have
\* the same id, and a broadcast that returns has reached every connection
\* bound to it.
C4_ConversationIsolation ==
    /\ \A c \in Conn :
          pc[c] = "broadcast" =>
             \A d \in Range(cur[c].sent) : state[d] = "open" => bound[d] = bound[c]
    /\ last.outcome = "delivered" =>
          \A d \in LiveMembers(last.locals.members, last.conv) : d \in Range(last.locals.sent)

\* C5: a send that fails for one member of a broadcast neither keeps the
\* event from the other members nor comes back as an error frame to the
\* connection whose frame started the broadcast.
C5_SendFailureTolerated ==
    last.cause = "send failed" =>
        /\ last.reply = ""
        /\ \A d \in LiveMembers(last.locals.members, last.conv) :
              d \in Range(last.locals.sent)

\* C6: a broadcast that returns has sent its event exactly once to every
\* connection that was in the list when it started (here: those still
\* registered, with a connected client), whatever registered or unregistered
\* meanwhile.
C6_BroadcastExactlyOnce ==
    last.outcome = "delivered" =>
        \A d \in Range(last.locals.members) :
            (state[d] = "open" /\ peer[d]) => Count(last.locals.sent, d) = 1

\* C7: once the handler of a connection has ended on a transport failure, the
\* connection is in no list of the registry, and no key is left with an empty
\* list.
C7_DisconnectedIsAbsent ==
    \A c \in Conn :
        state[c] = "closed" =>
            /\ ~Registered(c)
            /\ \A k \in DOMAIN active_connections : active_connections[k] # <<>>

\* a connection closed as the last member of its key while another
\* connection closed earlier: the registry is empty again
C7_Witness ==
    /\ \E c \in Conn : state[c] = "closed"
    /\ \E c \in Conn : state[c] = "open"
    /\ \E c \in Conn : state[c] = "closed" /\ last.conn = c /\ ~last.alive
    /\ 3 \notin DOMAIN active_connections

\* the query lacks a token, its token fails verification, or it names
\* neither a chat nor a group
Unacceptable(q) ==
    \/ q.token = ""
    \/ q.token \in {"garbage", "nosub"}
    \/ (q.chat_id = "" /\ q.group_id = "")

\* C8: a connection that came to /ws with an unacceptable query is closed
\* with the policy-violation code and a reason, is in no list of the
\* registry, and its handler never ran, so none of its frames is read.
C8_UnauthenticatedNeverRegistered ==
    \A c \in Conn :
        (query[c] # NoQuery /\ Unacceptable(query[c])) =>
            /\ state[c] = "rejected"
            /\ close[c].code = WS_1008_POLICY_VIOLATION
            /\ close[c].reason # ""
            /\ ~Registered(c)
            /\ pc[c] = "idle"
            /\ last.conn # c
            /\ cur[c] = NoLocals

\* a connection whose token has no sub has been rejected while another
\* connection is registered and has had a frame processed
C8_Witness ==
    /\ \E c \in Conn : state[c] = "rejected" /\ query[c].token = "nosub"
    /\ \E c \in Conn : state[c] = "open" /\ Registered(c) /\ last.conn = c

\* C9: a connection that comes to /ws with a valid token and the chat_id or
\* group_id of an existing conversation is registered under it and its
\* handler runs the receive loop.
C9_ValidConnectionRegistered ==
    \A c \in Conn :
        (query[c] # NoQuery /\ ~Unacceptable(query[c])) =>
            /\ state[c] \in {"open", "closed"}
            /\ state[c] = "open" => Registered(c) /\ pc[c] # "idle"

\* C10: a frame that is not valid JSON, or whose action is neither
\* send_message nor mark_as_read whatever else it carries, is answered with an
\* error frame, and the connection stays in the receive loop.
C10_UnknownFrameAnswered ==
    (\/ last.locals.frame.json = "invalid"
     \/ (/\ last.locals.frame.json = "object"
         /\ last.locals.frame.action \notin {"send_message", "mark_as_read"})) =>
        /\ last.outcome = "error"
        /\ last.reply # ""
        /\ last.alive

\* causes of a frame's end that are no transport failure: the duplicate found
\* by create_message, the duplicate and the foreign key refused by the
\* database at commit, the message that mark_as_read does not find, the
\* missing field
ApplicationFailures ==
    {"duplicate found", "duplicate insert", "foreign key", "message not found",
     "field check", "no message id"}

\* C11: a registered session ends only on a transport failure (its client is
\* gone); a frame that fails for a duplicate message, a missing message, a
\* missing field or an exception of the persistence layer is answered with an
\* error frame to its sender, whose connection is still open, still
\* registered and back at reading its next frame.
C11_OnlyTransportFailureEnds ==
    [][ /\ \A c \in Conn : (state[c] = "open" /\ state'[c] = "closed") => ~peer[c]
        /\ (last' # last /\ last'.cause \in ApplicationFailures /\ peer[last'.conn]) =>
               /\ last'.outcome = "error"
               /\ last'.reply # ""
               /\ last'.alive
               /\ state'[last'.conn] = "open"
               /\ pc'[last'.conn] = "receive"
               /\ \E k \in DOMAIN active_connections' :
                      last'.conn \in Range(active_connections'[k]) ]_vars

\* the database refused an INSERT and the session goes on
C11_Witness ==
    /\ last.cause = "foreign key"
    /\ last.reply = ErrInternal
    /\ last.alive
    /\ state[last.conn] = "open"
    /\ pc[last.conn] = "receive"
    /\ Registered(last.conn)

\* C12: the registry never maps a key to an empty list: its keys are exactly
\* the keys that open sessions are registered under, each list holds at least
\* one connection, and a key whose last connection leaves is gone in the
\* step that removes the connection.
C12_NoEmptyKey ==
    /\ DOMAIN active_connections = {bound[c][1] : c \in {d \in Conn : state[d] = "open"}}
    /\ \A k \in DOMAIN active_connections : Len(active_connections[k]) >= 1

\* the handler of the only connection of conversation 1 has ended and key 1
\* went with it, while key 3 is still there
C12_Witness ==
    /\ ~last.alive
    /\ last.conv[1] = 1
    /\ 1 \notin DOMAIN active_connections
    /\ 3 \in DOMAIN active_connections

\* C13: one connection's frames are processed one after the other: a frame is
\* read by a handler only when it is back at receive_text with nothing of the
\* frame before pending (its row committed or refused, its broadcast returned
\* or raised, its error frame sent), so no two frames of a connection are in
\* processing at once.
C13_OneFrameAtATime ==
    [][ \A c \in Conn :
          /\ (pc[c] = "receive" => cur[c] = NoLocals)
          /\ (/\ nframes' = nframes + 1
              /\ \/ cur'[c] # cur[c]
                 \/ (last' # last /\ last'.conn = c))
             => (pc[c] = "receive" /\ cur[c] = NoLocals) ]_vars

\* a connection whose first frame was broadcast to the end is processing its
\* second frame
C13_Witness ==
    /\ nframes >= 2
    /\ last.outcome = "delivered"
    /\ last.alive
    /\ pc[last.conn] \in {"commit", "broadcast"}
    /\ cur[last.conn].frame # NoFrame

\* C14: a connection whose chat_id or group_id names no existing conversation
\* is closed before it is registered and before it reads a frame: every open
\* (registered, looping) session is bound to a conversation that exists.
C14_UnknownConversationClosed ==
    \A c \in Conn :
        (state[c] = "open" \/ Registered(c)) => ChatFound(bound[c][1], bound[c][2])

\* C15: when a connection's client goes away, that connection's handler ends
\* and unregisters it, and nobody else is touched: the state and the registry
\* membership of every other connection stay as they were, and a session
\* whose own client is there gets no error frame for a send that failed on
\* another connection.
C15_FailureIsolated ==
    [][ /\ \A c \in Conn :
              (state[c] = "open" /\ state'[c] = "closed") =>
                  /\ ~peer[c]
                  /\ \A k \in DOMAIN active_connections' :
                         c \notin Range(active_connections'[k])
                  /\ \A d \in Conn \ {c} :
                         /\ state'[d] = state[d]
                         /\ \A k \in {1, 3} :
                                (k \in DOMAIN active_connections
                                    /\ d \in Range(active_connections[k]))
                                <=> (k \in DOMAIN active_connections'
                                       /\ d \in Range(active_connections'[k]))
        /\ (last' # last /\ last'.cause = "send failed" /\ peer[last'.conn]) =>
               last'.reply = "" ]_vars

\* C16: connect on a connection that its key's list already holds changes
\* nothing: the registry after the second connect is the registry after the
\* first, and a broadcast sends to each connection once.
C16_ConnectIdempotent ==
    [][ /\ (/\ last'.outcome = "connect"
            /\ last'.conv[1] \in DOMAIN active_connections
            /\ last'.conn \in Range(active_connections[last'.conv[1]]))
           => active_connections' = active_connections
        /\ last'.outcome = "broadcast" =>
               \A x \in Conn : Count(last'.locals.sent, x) <= 1 ]_vars

\* C17: disconnect on a key that is not in the registry, or on a key whose
\* list does not hold the connection, raises nothing and leaves the registry
\* as it was; so does the second of two disconnects of one connection.
C17_DisconnectAbsentNoOp ==
    [][ (/\ last'.outcome = "disconnect"
         /\ \/ last'.conv[1] \notin DOMAIN active_connections
            \/ last'.conn \notin Range(active_connections[last'.conv[1]]))
        => (active_connections' = active_connections /\ last'.cause = "") ]_vars

\* C18: a send_message on a connection bound to a group is stored under the
\* chat id that backs the group, not under the group's id; the event being
\* broadcast carries that backing chat id; and the event goes to connections
\* registered under the group's id.
C18_GroupMessageUnderBackingChat ==
    \A c \in Conn :
        (/\ state[c] = "open"
         /\ bound[c][2]
         /\ pc[c] = "broadcast"
         /\ cur[c].action = "new_message")
        => /\ cur[c].message.chat_id = GroupRows[bound[c][1]]
           /\ \E i \in 1..Len(messages) :
                  /\ messages[i].id = cur[c].message.id
                  /\ messages[i].chat_id = GroupRows[bound[c][1]]
                  /\ messages[i].text = cur[c].frame.text
           /\ \A d \in Range(cur[c].sent) :
                  state[d] = "open" => bound[d][1] = bound[c][1]

\* a message sent to group 1 is stored under chat 2 and has reached a
\* connection registered under key 1
C18_Witness ==
    \E c \in Conn :
        /\ bound[c] = <<1, TRUE>>
        /\ pc[c] = "broadcast"
        /\ cur[c].action = "new_message"
        /\ cur[c].message.chat_id = 2
        /\ Len(cur[c].sent) >= 1

\* C19: a row of messages is never deleted, its id, chat, sender and text never
\* change, and its read flag only ever goes from false to true.
C19_MessagesImmutable ==
    [][ /\ Len(messages') >= Len(messages)
        /\ \A i \in 1..Len(messages) :
              /\ messages'[i].id = messages[i].id
              /\ messages'[i].chat_id = messages[i].chat_id
              /\ messages'[i].sender_id = messages[i].sender_id
              /\ messages'[i].text = messages[i].text
              /\ (messages[i].is_read => messages'[i].is_read) ]_vars

\* a row was marked read and another row was stored
C19_Witness ==
    /\ Len(messages) = 2
    /\ \E i \in 1..2 : messages[i].is_read
    /\ \E i \in 1..2 : ~messages[i].is_read

\* C20: a mark_as_read frame for a message that is already read is a success
\* like the first one: the store stays as it was, and a message_read event
\* with is_read true is broadcast again; it is not answered with an error.
C20_MarkAgainSucceeds ==
    [][ \A c \in Conn :
          (/\ nframes' = nframes + 1
           /\ \E i \in 1..Len(messages) : messages[i].id = 1 /\ messages[i].is_read
           /\ \/ (/\ cur'[c] # cur[c]
                  /\ cur'[c].frame = Frame("object", "mark_as_read", 1, "hi", 1))
              \/ (/\ last' # last
                  /\ last'.conn = c
                  /\ last'.locals.frame = Frame("object", "mark_as_read", 1, "hi", 1)))
          => /\ messages' = messages
             /\ last' = last
             /\ pc'[c] = "broadcast"
             /\ cur'[c].action = "message_read"
             /\ cur'[c].message.id = 1
             /\ cur'[c].message.is_read ]_vars

\* the first message_read of a message was delivered and a second mark of
\* the same message is being broadcast
C20_Witness ==
    \E c \in Conn :
        /\ last.outcome = "delivered"
        /\ last.locals.action = "message_read"
        /\ pc[c] = "broadcast"
        /\ cur[c].action = "message_read"
        /\ cur[c].message.id = last.locals.message.id
        /\ cur[c].message.is_read

\* C21: a frame that is answered with an error frame had no effect: it stored
\* no row and marked none, its event went to no connection, and the registry
\* is as it was.
C21_ErrorFrameNoEffect ==
    [][ (last' # last /\ last'.reply # "") =>
           /\ active_connections' = active_connections
           /\ last'.locals.action = ""
           /\ last'.locals.sent = <<>>
           /\ ~\E i \in 1..Len(messages') :
                  /\ last'.locals.message.id # 0
                  /\ messages'[i].id = last'.locals.message.id ]_vars

\* C22: a mark_as_read frame on a connection bound to a conversation marks
\* and announces only messages of that conversation: the message_read event
\* a handler broadcasts is for a row whose chat is the chat of the
\* conversation the handler was started with.
C22_MarkOnlyOwnConversation ==
    \A c \in Conn :
        (pc[c] = "broadcast" /\ cur[c].action = "message_read") =>
            /\ ChatFound(bound[c][1], bound[c][2])
            /\ cur[c].message.chat_id = TargetChatId(bound[c][1], bound[c][2])

\* C23: every message stored through a connection carries as sender_id the
\* identity of the one principal that authenticated the connection; hence two
\* messages stored through one connection have the same sender_id.
C23_SenderIsPrincipal ==
    \A c \in Conn :
        (/\ last.conn = c
         /\ last.locals.action = "new_message"
         /\ pc[c] = "broadcast"
         /\ cur[c].action = "new_message")
        => cur[c].message.sender_id = last.locals.message.sender_id

\* C24: a connection is at most once in the registry, counting all lists; the
\* list that holds it is the list of the key its handler was started with
\* and its handler is running; a handler that has ended left no entry, so it
\* was removed from the key it was registered under.
C24_RegisteredOnceUnderOwnKey ==
    \A c \in Conn :
        /\ \A k \in DOMAIN active_connections : Count(active_connections[k], c) <= 1
        /\ \A k, j \in DOMAIN active_connections :
               (c \in Range(active_connections[k]) /\ c \in Range(active_connections[j]))
                   => k = j
        /\ \A k \in DOMAIN active_connections :
               c \in Range(active_connections[k]) =>
                   (state[c] = "open" /\ k = bound[c][1])
        /\ state[c] = "open" =>
               (bound[c][1] \in DOMAIN active_connections
                   /\ c \in Range(active_connections[bound[c][1]]))

\* of two connections registered under one key, one has ended and the other
\* is the only entry left
C24_Witness ==
    \E c, d \in Conn :
        /\ state[c] = "closed"
        /\ state[d] = "open"
        /\ last.conn = c
        /\ ~last.alive
        /\ last.conv[1] = bound[d][1]
        /\ active_connections = (bound[d][1] :> <<d>>)

\* C25: the database session opened for a frame is closed when the handler
\* is done with the frame, on every path, so that a connection never has
\* more than one session open.
C25_SessionClosedPerFrame ==
    last.locals.db # "open"

====
